---- MODULE Spec2Model ----
(***************************************************************************)
(* ClusterHealthz (src/server.py): a health endpoint that, on every        *)
(* /healthz query, fetches the ALERTS feed from Prometheus, decodes it,    *)
(* compares the firing alert names with the configured watch list and      *)
(* answers 'healthy' or 'unhealthy'.  SIGHUP reloads the watch list.       *)
(***************************************************************************)
EXTENDS Integers, Sequences, FiniteSets, TLC

(***************************************************************************)
(* Bounds of the model.                                                    *)
(***************************************************************************)
\* longest data.result list of a well-formed feed
MaxResult == 2
\* most lines of a configuration file
MaxLines == 2
\* number of request contexts of the server
NQueries == 2

Queries == 1..NQueries

\* alert names, as in the tests' fixtures and config/clusterhealthz.conf
Names == {"KubernetesMasterDown", "ExampleAlertAlwaysFiring"}

Range(s) == {s[i] : i \in DOMAIN s}

(***************************************************************************)
(* Configuration source.  A line, as file.readlines() returns it, is a     *)
(* sequence of tokens: an alert name and/or the line terminator NL.        *)
(***************************************************************************)
NL == "\n"

TermLines == {<<n, NL>> : n \in Names} \cup {<<NL>>}

\* only the last line of a file may lack its terminator
LastLines == TermLines \cup {<<n>> : n \in Names}

FileContents ==
    UNION {{s \in [1..k -> LastLines] : \A i \in 1..(k - 1) : s[i] \in TermLines} :
           k \in 0..MaxLines}

\* the state of ./config/clusterhealthz.conf when it is opened
MissingSource == [exists |-> FALSE, lines |-> <<>>]

Sources == {MissingSource} \cup {[exists |-> TRUE, lines |-> c] : c \in FileContents}

\* arguments of process_configuration: a list of lines, or a mapping
ListContents(lines) == [type |-> "list", items |-> lines]

\* the tests' invalid_configuration {'test': 'test'}; iterating over a dict
\* yields its keys
DictContents == [type |-> "dict", items |-> <<<<"test">>>>]

\* the tests' valid_configuration ['AlertOne', 'AlertTwo']
ValidConfiguration == ListContents(<<<<"AlertOne">>, <<"AlertTwo">>>>)

\* what the tests pass to process_configuration directly
ConfigArguments == {ValidConfiguration, DictContents}

RECURSIVE lstrip(_)
lstrip(line) ==
    IF line # <<>> /\ Head(line) = NL THEN lstrip(Tail(line)) ELSE line

RECURSIVE rstrip(_)
rstrip(line) ==
    IF line # <<>> /\ line[Len(line)] = NL
    THEN rstrip(SubSeq(line, 1, Len(line) - 1))
    ELSE line

\* x.strip('\n'): the line without leading and trailing terminators
strip(line) ==
    LET r == rstrip(lstrip(line))
    IN  IF r = <<>> THEN "" ELSE r[1]

(***************************************************************************)
(* Response texts.  A text is either one of the literal bodies below or    *)
(* the serialisation of a well-formed feed                                 *)
(*   {"status":"success","data":{"resultType":"vector","result":[          *)
(*      {"metric":{"__name__":"ALERTS","alertname":n},"value":[]}, ...]}}  *)
(* whose alert names, in order, are the field result.                      *)
(***************************************************************************)
Literal(s) == [lit |-> s, result |-> <<>>]

FeedText(names) == [lit |-> "feed", result |-> names]

EmptyText == Literal("")

UndecodableLiterals == {"", "narp"}

WrongNestingLiterals ==
    {"{}", "null", "\"up\"", "{\"status\":\"success\"}",
     "{\"data\":{\"result\":{}}}",
     "{\"data\":{\"result\":[{\"value\":[]}]}}",
     "{\"data\":{\"result\":[{\"metric\":{}}]}}"}

FeedTexts == {FeedText(s) : s \in UNION {[1..k -> Names] : k \in 0..MaxResult}}

Texts == {Literal(s) : s \in UndecodableLiterals \cup WrongNestingLiterals} \cup FeedTexts

(***************************************************************************)
(* Decoded JSON values: a tag and a payload.  An object's payload is a     *)
(* function from keys to values, an array's payload a sequence of values.  *)
(* A raised exception is carried as a value with tag "raise".              *)
(***************************************************************************)
JNull == [t |-> "null", v |-> 0]

JStr(s) == [t |-> "str", v |-> s]

JArr(a) == [t |-> "arr", v |-> a]

JObj(o) == [t |-> "obj", v |-> o]

EmptyObj == JObj([k \in {} |-> JNull])

Raise(e) == [t |-> "raise", v |-> e]

\* json.loads(text)
json_loads(text) ==
    CASE text.lit = "" -> Raise("JSONDecodeError")
      [] text.lit = "narp" -> Raise("JSONDecodeError")
      [] text.lit = "{}" -> EmptyObj
      [] text.lit = "null" -> JNull
      [] text.lit = "\"up\"" -> JStr("up")
      [] text.lit = "{\"status\":\"success\"}" -> JObj([status |-> JStr("success")])
      [] text.lit = "{\"data\":{\"result\":{}}}" ->
            JObj([data |-> JObj([result |-> EmptyObj])])
      [] text.lit = "{\"data\":{\"result\":[{\"value\":[]}]}}" ->
            JObj([data |-> JObj([result |-> JArr(<<JObj([value |-> JArr(<<>>)])>>)])])
      [] text.lit = "{\"data\":{\"result\":[{\"metric\":{}}]}}" ->
            JObj([data |-> JObj([result |-> JArr(<<JObj([metric |-> EmptyObj])>>)])])
      [] text.lit = "feed" ->
            JObj([status |-> JStr("success"),
                  data |-> JObj([resultType |-> JStr("vector"),
                                 result |-> JArr([i \in 1..Len(text.result) |->
                                     JObj([metric |-> JObj([__name__ |-> JStr("ALERTS"),
                                                            alertname |-> JStr(text.result[i])]),
                                           value |-> JArr(<<>>)])])])])

\* Python truth value of a str: the empty text is false
TruthyText(text) == text.lit # ""

\* Python truth value of a decoded value
Truthy(j) ==
    CASE j.t = "null" -> FALSE
      [] j.t = "str" -> j.v # ""
      [] j.t = "arr" -> Len(j.v) > 0
      [] j.t = "obj" -> DOMAIN j.v # {}
      [] OTHER -> FALSE

\* j[k] for a string key k: KeyError on a dict without k, TypeError on
\* anything that is not a dict; an exception already raised propagates
Subscript(j, k) ==
    IF j.t = "raise" THEN j
    ELSE IF j.t # "obj" THEN Raise("TypeError")
    ELSE IF k \in DOMAIN j.v THEN j.v[k]
    ELSE Raise("KeyError")

\* len(j) == 0, where len() is defined (dict, list, str)
Sized(j) == j.t \in {"obj", "arr", "str"}

IsEmpty(j) ==
    CASE j.t = "obj" -> DOMAIN j.v = {}
      [] j.t = "arr" -> Len(j.v) = 0
      [] j.t = "str" -> j.v = ""

(***************************************************************************)
(* The methods of ClusterHealthz as functions from their inputs to their   *)
(* effect.  In an effect, status is the value assigned to self.status, or  *)
(* "keep" when the method does not assign it.                              *)
(***************************************************************************)
StatusAfter(old, effect) == IF effect.status = "keep" THEN old ELSE effect.status

\* variant: builds the stripped list and does not assign it to self.alerts
process_configuration_not_assigned(contents) ==
    IF contents.type # "list"
    THEN [exit |-> FALSE, raised |-> TRUE, set |-> FALSE, alerts |-> <<>>]
    ELSE [exit |-> FALSE, raised |-> FALSE, set |-> FALSE,
          alerts |-> [i \in 1..Len(contents.items) |-> strip(contents.items[i])]]

\* variant: assigns self.alerts before it looks at the type
process_configuration_unchecked(contents) ==
    [exit |-> FALSE, raised |-> contents.type # "list", set |-> TRUE,
     alerts |-> [i \in 1..Len(contents.items) |-> strip(contents.items[i])]]

\* process_configuration(config_contents): TypeError unless given a list,
\* else self.alerts = the lines stripped of '\n'
process_configuration(contents) ==
    IF contents.type # "list"
    THEN [exit |-> FALSE, raised |-> TRUE, set |-> FALSE, alerts |-> <<>>]
    ELSE [exit |-> FALSE, raised |-> FALSE, set |-> TRUE,
          alerts |-> [i \in 1..Len(contents.items) |-> strip(contents.items[i])]]

\* variant: logs the missing file and returns instead of exiting
open_configuration_no_exit(source) ==
    IF ~source.exists
    THEN [exit |-> FALSE, raised |-> FALSE, set |-> FALSE, alerts |-> <<>>]
    ELSE process_configuration(ListContents(source.lines))

\* open_configuration(): sys.exit(1) on FileNotFoundError, else
\* process_configuration(config.readlines())
open_configuration(source) ==
    IF ~source.exists
    THEN [exit |-> TRUE, raised |-> FALSE, set |-> FALSE, alerts |-> <<>>]
    ELSE process_configuration(ListContents(source.lines))

\* what requests.get(alert_path) does, as get_prometheus_alerts tells the
\* cases apart: raises socket.gaierror, raises requests.ConnectionError, or
\* returns a response with a body
GaiError == [kind |-> "gaierror", text |-> EmptyText]

ConnError == [kind |-> "ConnectionError", text |-> EmptyText]

Response(text) == [kind |-> "ok", text |-> text]

NoOutcome == [kind |-> "none", text |-> EmptyText]

FetchOutcomes == {GaiError, ConnError} \cup {Response(t) : t \in Texts}

\* variant: the ConnectionError handler does not assign the status
get_prometheus_alerts_keep(outcome) ==
    CASE outcome.kind = "gaierror" ->
            [status |-> "unhealthy", raised |-> TRUE, none |-> TRUE, text |-> EmptyText]
      [] outcome.kind = "ConnectionError" ->
            [status |-> "keep", raised |-> FALSE, none |-> TRUE, text |-> EmptyText]
      [] outcome.kind = "ok" ->
            [status |-> "keep", raised |-> FALSE, none |-> FALSE, text |-> outcome.text]

\* get_prometheus_alerts(): on socket.gaierror the handler sets the status
\* and falls through to 'return alerts.text' with alerts = None, which
\* raises AttributeError; on ConnectionError it sets the status and returns
\* None; otherwise it returns the body
get_prometheus_alerts(outcome) ==
    CASE outcome.kind = "gaierror" ->
            [status |-> "unhealthy", raised |-> TRUE, none |-> TRUE, text |-> EmptyText]
      [] outcome.kind = "ConnectionError" ->
            [status |-> "unhealthy", raised |-> FALSE, none |-> TRUE, text |-> EmptyText]
      [] outcome.kind = "ok" ->
            [status |-> "keep", raised |-> FALSE, none |-> FALSE, text |-> outcome.text]

\* variant: a body that decodes makes the status 'healthy' until the
\* evaluation has decided
json_prometheus_response_provisional(text) ==
    LET j == json_loads(text)
    IN  IF j.t = "raise"
        THEN [status |-> "unhealthy", none |-> TRUE, json |-> JNull]
        ELSE [status |-> "healthy", none |-> FALSE, json |-> j]

\* variant: a decode failure is reported without assigning the status
json_prometheus_response_silent(text) ==
    LET j == json_loads(text)
    IN  IF j.t = "raise"
        THEN [status |-> "keep", none |-> TRUE, json |-> JNull]
        ELSE [status |-> "keep", none |-> FALSE, json |-> j]

\* variant: the JSONDecodeError handler assigns 'healthy'
json_prometheus_response_healthy(text) ==
    LET j == json_loads(text)
    IN  IF j.t = "raise"
        THEN [status |-> "healthy", none |-> TRUE, json |-> JNull]
        ELSE [status |-> "keep", none |-> FALSE, json |-> j]

\* json_prometheus_response(prometheus_string): the decoded value, or on
\* JSONDecodeError status 'unhealthy' and None
json_prometheus_response(text) ==
    LET j == json_loads(text)
    IN  IF j.t = "raise"
        THEN [status |-> "unhealthy", none |-> TRUE, json |-> JNull]
        ELSE [status |-> "keep", none |-> FALSE, json |-> j]

\* alert['metric']['alertname'] for every alert of the result list
active_alert_names(result) ==
    [i \in 1..Len(result.v) |->
        Subscript(Subscript(result.v[i], "metric"), "alertname")]

\* x in active_alert_names, for a watch list entry x (a str)
Contains(names, x) ==
    \E i \in 1..Len(names) : names[i].t = "str" /\ names[i].v = x

Evaluation(verdict) == [raised |-> FALSE, status |-> verdict]

Escapes == [raised |-> TRUE, status |-> "keep"]

\* variant: all() in place of any() at line 165
process_prometheus_alerts_all(j, watch) ==
    LET result == Subscript(Subscript(j, "data"), "result")
    IN  IF result.t = "raise" \/ ~Sized(result) THEN Escapes
        ELSE IF IsEmpty(result) THEN Evaluation("healthy")
        ELSE IF result.t # "arr" THEN Escapes
        ELSE LET names == active_alert_names(result)
             IN  IF \E i \in 1..Len(names) : names[i].t = "raise" THEN Escapes
                 ELSE IF \A k \in 1..Len(watch) : Contains(names, watch[k])
                      THEN Evaluation("unhealthy")
                      ELSE Evaluation("healthy")

\* process_prometheus_alerts(prometheus_query), reading self.alerts = watch.
\* Lines 156-159: an empty data.result is 'healthy'; a missing key or a
\* value that cannot be subscripted or measured raises.  Lines 161-163: a
\* non-empty dict or str iterates over strings, whose ['metric'] raises
\* TypeError.  Lines 165-174: any watch list entry among the names.
process_prometheus_alerts(j, watch) ==
    LET result == Subscript(Subscript(j, "data"), "result")
    IN  IF result.t = "raise" \/ ~Sized(result) THEN Escapes
        ELSE IF IsEmpty(result) THEN Evaluation("healthy")
        ELSE IF result.t # "arr" THEN Escapes
        ELSE LET names == active_alert_names(result)
             IN  IF \E i \in 1..Len(names) : names[i].t = "raise" THEN Escapes
                 ELSE IF \E k \in 1..Len(watch) : Contains(names, watch[k])
                      THEN Evaluation("unhealthy")
                      ELSE Evaluation("healthy")

(***************************************************************************)
(* State.                                                                  *)
(***************************************************************************)
VARIABLES
    phase,       \* "new": before ClusterHealthz(); "running"; "exited"
    alerts,      \* self.alerts, the watch list
    loaded,      \* self.alerts has been assigned
    status,      \* self._status; "unset" before __init__ assigns it
    loadResult,  \* how the last load ended: "none", "ok", "SystemExit", "TypeError"
    evaluated,   \* some process_prometheus_alerts has assigned the status
    config,      \* the lines handed to the last load that ended without error
    pc,          \* per request: where return_status / start() stands
    resp,        \* per request: what requests.get did in this cycle
    js,          \* per request: prometheus_alerts_json
    verdict,     \* per request: the status this cycle computed, "none" if none
    ran,         \* per request: which of "json", "process" this cycle entered
    prior,       \* per request: the status held when the query arrived
    pending,     \* the values a handler in progress has still to assign to self.alerts
    loading,     \* the lines that handler has read
    fetches,     \* per request: how often this query called requests.get
    writes,      \* per request: how often this cycle assigned the status
    reloaded,    \* a load replaced the watch list between a fetch and its evaluation
    lastVerdict, \* the verdict of the cycle that finished most recently
    ret          \* per request: the text return_status returned, "none" if none

vars == <<phase, alerts, loaded, status, loadResult, evaluated, config,
          pending, loading,
          pc, resp, js, verdict, ran, prior, fetches, writes, reloaded,
          lastVerdict, ret>>

engine == <<phase, alerts, loaded, loadResult, config, pending, loading>>

locals == <<pc, resp, js, verdict, ran, prior, fetches, writes, lastVerdict, ret>>

Init ==
    /\ phase = "new"
    /\ alerts = <<>>
    /\ loaded = FALSE
    /\ status = "unset"
    /\ loadResult = "none"
    /\ evaluated = FALSE
    /\ config = <<>>
    /\ pc = [q \in Queries |-> "idle"]
    /\ resp = [q \in Queries |-> NoOutcome]
    /\ js = [q \in Queries |-> JNull]
    /\ verdict = [q \in Queries |-> "none"]
    /\ ran = [q \in Queries |-> {}]
    /\ prior = [q \in Queries |-> "none"]
    /\ pending = <<>>
    /\ loading = <<>>
    /\ fetches = [q \in Queries |-> 0]
    /\ writes = [q \in Queries |-> 0]
    /\ reloaded = FALSE
    /\ lastVerdict = "none"
    /\ ret = [q \in Queries |-> "none"]

(***************************************************************************)
(* Configuration: __init__, the SIGHUP handler, process_configuration.     *)
(***************************************************************************)
\* the assignments of a load that neither exited nor raised
Load(effect, lines) ==
    /\ alerts' = IF effect.set THEN effect.alerts ELSE alerts
    /\ config' = IF effect.raised THEN config ELSE lines
    /\ reloaded' = (reloaded \/ (effect.set /\ \E q \in Queries : pc[q] \in {"json", "process"}))
    /\ loaded' = (loaded \/ effect.set)
    /\ loadResult' = IF effect.raised THEN "TypeError"
                     ELSE IF effect.set THEN "ok" ELSE loadResult

\* clusterheathz = ClusterHealthz(): open_configuration(), then status =
\* 'unhealthy', then the handler is installed and the server starts
Construct(source) ==
    /\ phase = "new"
    /\ LET effect == open_configuration(source)
       IN  IF effect.exit
           THEN /\ phase' = "exited"
                /\ loadResult' = "SystemExit"
                /\ UNCHANGED <<alerts, loaded, status, config, reloaded>>
           ELSE /\ Load(effect, source.lines)
                /\ status' = "unhealthy"
                /\ phase' = "running"
    /\ UNCHANGED <<evaluated, locals, pending, loading>>

\* variant: the handler builds the engine anew, as __init__ does
signal_handler_reconstructs(source) ==
    /\ phase = "running"
    /\ LET effect == open_configuration(source)
       IN  IF effect.exit
           THEN /\ phase' = "exited"
                /\ loadResult' = "SystemExit"
                /\ UNCHANGED <<alerts, loaded, config, reloaded>>
           ELSE /\ Load(effect, source.lines)
                /\ UNCHANGED phase
    /\ status' = "unhealthy"
    /\ UNCHANGED <<evaluated, locals, pending, loading>>

\* SIGHUP: signal_handler calls open_configuration(); its sys.exit(1)
\* raises SystemExit in the main thread, which ends the process
signal_handler(source) ==
    /\ phase = "running"
    /\ LET effect == open_configuration(source)
       IN  IF effect.exit
           THEN /\ phase' = "exited"
                /\ loadResult' = "SystemExit"
                /\ UNCHANGED <<alerts, loaded, config, reloaded>>
           ELSE /\ Load(effect, source.lines)
                /\ UNCHANGED phase
    /\ UNCHANGED <<status, evaluated, locals, pending, loading>>

\* variant: the handler empties self.alerts and then fills it
alerts_assignments_in_place(new) == <<<<>>, new>>

\* process_configuration(): the values self.alerts takes during a load: the
\* stripped list is built in the local config_contents and assigned once
alerts_assignments(new) == <<new>>

\* SIGHUP while request threads run, up to the assignment of line 84:
\* open_configuration() reads the file and builds the stripped list
signal_handler_open(source) ==
    /\ phase = "running"
    /\ pending = <<>>
    /\ LET effect == open_configuration(source)
       IN  IF effect.exit
           THEN /\ phase' = "exited"
                /\ loadResult' = "SystemExit"
                /\ UNCHANGED <<pending, loading>>
           ELSE /\ pending' = alerts_assignments(effect.alerts)
                /\ loading' = source.lines
                /\ UNCHANGED <<phase, loadResult>>
    /\ UNCHANGED <<alerts, loaded, config, reloaded, status, evaluated, locals>>

\* the handler assigns self.alerts; with its last assignment the load is done
signal_handler_assign ==
    /\ phase = "running"
    /\ pending # <<>>
    /\ alerts' = Head(pending)
    /\ pending' = Tail(pending)
    /\ LET complete == Tail(pending) = <<>>
       IN  /\ config' = IF complete THEN loading ELSE config
           /\ loadResult' = IF complete THEN "ok" ELSE loadResult
           /\ reloaded' = (reloaded \/ (complete /\ \E q \in Queries : pc[q] \in {"json", "process"}))
    /\ loaded' = TRUE
    /\ UNCHANGED <<phase, loading, status, evaluated, locals>>

\* a direct call of process_configuration(contents) on the running engine;
\* its TypeError goes to the caller
call_process_configuration(contents) ==
    /\ phase = "running"
    /\ Load(process_configuration(contents), contents.items)
    /\ UNCHANGED <<phase, status, evaluated, locals, pending, loading>>

(***************************************************************************)
(* One health query: return_status calls start(), then reads the status.   *)
(***************************************************************************)
\* GET /healthz arrives: return_status is entered and calls start()
return_status(q) ==
    /\ phase = "running"
    /\ pc[q] = "idle"
    /\ pc' = [pc EXCEPT ![q] = "fetch"]
    /\ prior' = [prior EXCEPT ![q] = status]
    /\ UNCHANGED <<engine, status, evaluated, resp, js, verdict, ran, ret,
                   fetches, writes, reloaded, lastVerdict>>

\* start(): the status after a whole cycle that begins with the status prior,
\* gets the fetch outcome and evaluates against the watch list; each stage
\* runs only if the stage before returned something truthy
start(before, outcome, watch) ==
    LET got == get_prometheus_alerts(outcome)
        fetched == StatusAfter(before, got)
    IN  IF got.raised \/ got.none \/ ~TruthyText(got.text) THEN fetched
        ELSE LET parsed == json_prometheus_response(got.text)
                 decoded == StatusAfter(fetched, parsed)
             IN  IF parsed.none \/ ~Truthy(parsed.json) THEN decoded
                 ELSE StatusAfter(decoded, process_prometheus_alerts(parsed.json, watch))

\* the number of assignments to the status an effect makes
Assigns(effect) == IF effect.status = "keep" THEN 0 ELSE 1

\* variant: start() calls get_prometheus_alerts() again after a failure
after_get_retry(effect) ==
    IF effect.raised THEN "error"
    ELSE IF effect.none THEN "fetch"
    ELSE IF TruthyText(effect.text) THEN "json"
    ELSE "done"

\* where start() goes after get_prometheus_alerts(): an exception escapes;
\* 'if prometheus_query' is false for None and for the empty text
after_get(effect) ==
    IF effect.raised THEN "error"
    ELSE IF ~effect.none /\ TruthyText(effect.text) THEN "json"
    ELSE "done"

\* the verdict of the cycle that finished most recently, after a step that
\* takes request q to the position next with the verdict v
LastVerdictAfter(next, v) == IF next \in {"done", "error"} THEN v ELSE lastVerdict

\* start(), lines 93-94 and 100-101: get_prometheus_alerts(), then the
\* test 'if prometheus_query', false for None and for the empty text
start_get(q, outcome) ==
    /\ phase = "running"
    /\ pc[q] = "fetch"
    /\ LET effect == get_prometheus_alerts(outcome)
       IN  /\ status' = StatusAfter(status, effect)
           /\ verdict' = [verdict EXCEPT ![q] = StatusAfter("none", effect)]
           /\ pc' = [pc EXCEPT ![q] = after_get(effect)]
           /\ writes' = [writes EXCEPT ![q] = @ + Assigns(effect)]
           /\ lastVerdict' = LastVerdictAfter(after_get(effect), StatusAfter("none", effect))
    /\ resp' = [resp EXCEPT ![q] = outcome]
    /\ fetches' = [fetches EXCEPT ![q] = @ + 1]
    /\ UNCHANGED <<engine, evaluated, js, ran, prior, ret, reloaded>>

\* start(), lines 95-98: json_prometheus_response(), then the test
\* 'if prometheus_alerts_json', false for None and for every false value
start_json(q) ==
    /\ phase = "running"
    /\ pc[q] = "json"
    /\ LET effect == json_prometheus_response(resp[q].text)
       IN  /\ status' = StatusAfter(status, effect)
           /\ verdict' = [verdict EXCEPT ![q] = StatusAfter(verdict[q], effect)]
           /\ js' = [js EXCEPT ![q] = effect.json]
           /\ pc' = [pc EXCEPT ![q] =
                        IF ~effect.none /\ Truthy(effect.json) THEN "process"
                        ELSE "done"]
           /\ writes' = [writes EXCEPT ![q] = @ + Assigns(effect)]
           /\ lastVerdict' =
                 LastVerdictAfter(IF ~effect.none /\ Truthy(effect.json)
                                  THEN "process" ELSE "done",
                                  StatusAfter(verdict[q], effect))
    /\ ran' = [ran EXCEPT ![q] = @ \cup {"json"}]
    /\ UNCHANGED <<engine, evaluated, resp, prior, ret, fetches, reloaded>>

\* start(), line 99: process_prometheus_alerts() up to the point where it
\* has read self.alerts and decided; an exception escapes start()
start_process(q) ==
    /\ phase = "running"
    /\ pc[q] = "process"
    /\ LET effect == process_prometheus_alerts(js[q], alerts)
       IN  /\ verdict' = [verdict EXCEPT ![q] = StatusAfter(verdict[q], effect)]
           /\ pc' = [pc EXCEPT ![q] = IF effect.raised THEN "error" ELSE "publish"]
           /\ lastVerdict' = LastVerdictAfter(IF effect.raised THEN "error" ELSE "publish",
                                              StatusAfter(verdict[q], effect))
    /\ ran' = [ran EXCEPT ![q] = @ \cup {"process"}]
    /\ UNCHANGED <<engine, status, evaluated, resp, js, prior, ret,
                   fetches, writes, reloaded>>

\* process_prometheus_alerts(), lines 158, 168, 174: self.status = ...
start_publish(q) ==
    /\ phase = "running"
    /\ pc[q] = "publish"
    /\ status' = verdict[q]
    /\ evaluated' = TRUE
    /\ pc' = [pc EXCEPT ![q] = "done"]
    /\ writes' = [writes EXCEPT ![q] = @ + 1]
    /\ lastVerdict' = verdict[q]
    /\ UNCHANGED <<engine, resp, js, verdict, ran, prior, ret, fetches, reloaded>>

\* return_status, line 204: return clusterheathz.status
return_status_read(q) ==
    /\ phase = "running"
    /\ pc[q] = "done"
    /\ ret' = [ret EXCEPT ![q] = status]
    /\ pc' = [pc EXCEPT ![q] = "returned"]
    /\ UNCHANGED <<engine, status, evaluated, resp, js, verdict, ran, prior,
                   fetches, writes, reloaded, lastVerdict>>

\* the response (the text, or the error of an escaped exception) has been
\* sent; the request context is free for the next query
request_done(q) ==
    /\ phase = "running"
    /\ pc[q] \in {"returned", "error"}
    /\ pc' = [pc EXCEPT ![q] = "idle"]
    /\ resp' = [resp EXCEPT ![q] = NoOutcome]
    /\ js' = [js EXCEPT ![q] = JNull]
    /\ verdict' = [verdict EXCEPT ![q] = "none"]
    /\ ran' = [ran EXCEPT ![q] = {}]
    /\ prior' = [prior EXCEPT ![q] = "none"]
    /\ fetches' = [fetches EXCEPT ![q] = 0]
    /\ writes' = [writes EXCEPT ![q] = 0]
    /\ ret' = [ret EXCEPT ![q] = "none"]
    /\ reloaded' = (reloaded /\ \E r \in Queries \ {q} : pc[r] # "idle")
    /\ UNCHANGED <<engine, status, evaluated, lastVerdict>>

\* the rest of a cycle, after return_status has been entered
Cycle(q) ==
    \/ start_json(q)
    \/ start_process(q)
    \/ start_publish(q)
    \/ return_status_read(q)
    \/ request_done(q)

(***************************************************************************)
(* Spec: a server that handles one query at a time, in one request         *)
(* context.  A SIGHUP, and a direct call of process_configuration, may     *)
(* fall between any two steps.                                             *)
(***************************************************************************)
SerialQueries == {1}

\* the configuration files a SIGHUP finds: none, an empty one, one entry
ThreadedSources ==
    {MissingSource,
     [exists |-> TRUE, lines |-> <<>>],
     [exists |-> TRUE, lines |-> <<<<"KubernetesMasterDown", NL>>>>]}

\* GET /healthz arrives at a server that is handling no other query
serial_return_status(q) ==
    /\ \A r \in Queries : pc[r] = "idle"
    /\ return_status(q)

Next ==
    \/ \E source \in Sources : Construct(source)
    \/ \E source \in ThreadedSources : signal_handler(source)
    \/ \E contents \in ConfigArguments : call_process_configuration(contents)
    \/ \E q \in SerialQueries : serial_return_status(q)
    \/ \E q \in SerialQueries, outcome \in FetchOutcomes : start_get(q, outcome)
    \/ \E q \in SerialQueries : Cycle(q)

Spec == Init /\ [][Next]_vars

(***************************************************************************)
(* SpecThreaded: a server that handles each query in a thread of its own,  *)
(* so that the steps of NQueries cycles and of a reload interleave.        *)
(***************************************************************************)
ThreadedOutcomes ==
    {ConnError, Response(FeedText(<<>>)),
     Response(FeedText(<<"KubernetesMasterDown">>))}

NextThreaded ==
    \/ \E source \in ThreadedSources : Construct(source)
    \/ \E source \in ThreadedSources : signal_handler(source)
    \/ \E q \in Queries : return_status(q)
    \/ \E q \in Queries, outcome \in ThreadedOutcomes : start_get(q, outcome)
    \/ \E q \in Queries : Cycle(q)

SpecThreaded == Init /\ [][NextThreaded]_vars

(***************************************************************************)
(* SpecOverlap: overlapping cycles without reloads; the fetch outcomes      *)
(* include the empty body.                                                  *)
(***************************************************************************)
OverlapOutcomes == ThreadedOutcomes \cup {Response(EmptyText)}

NextOverlap ==
    \/ \E source \in ThreadedSources : Construct(source)
    \/ \E q \in Queries : return_status(q)
    \/ \E q \in Queries, outcome \in OverlapOutcomes : start_get(q, outcome)
    \/ \E q \in Queries : Cycle(q)

SpecOverlap == Init /\ [][NextOverlap]_vars

(***************************************************************************)
(* SpecReload: the steps of a SIGHUP handler interleave with the cycles of  *)
(* the request threads.                                                     *)
(***************************************************************************)
ReloadOutcomes == {Response(FeedText(<<"KubernetesMasterDown">>))}

NextReload ==
    \/ \E source \in ThreadedSources : Construct(source)
    \/ \E source \in ThreadedSources : signal_handler_open(source)
    \/ signal_handler_assign
    \/ \E q \in Queries : return_status(q)
    \/ \E q \in Queries, outcome \in ReloadOutcomes : start_get(q, outcome)
    \/ \E q \in Queries : Cycle(q)

SpecReload == Init /\ [][NextReload]_vars

(***************************************************************************)
(* Properties.                                                             *)
(***************************************************************************)
Finished(q) == pc[q] \in {"done", "error", "returned"}

\* the verdict the specification asks for: unhealthy iff a firing alert
\* name is an entry of the watch list
Expected(names, watch) ==
    IF Range(names) \cap Range(watch) # {} THEN "unhealthy" ELSE "healthy"

\* the nesting data -> result -> [ metric -> alertname ]
HasKey(j, k) == j.t = "obj" /\ k \in DOMAIN j.v

WellFormed(j) ==
    /\ HasKey(j, "data")
    /\ HasKey(j.v["data"], "result")
    /\ LET result == j.v["data"].v["result"]
       IN  /\ result.t = "arr"
           /\ \A i \in 1..Len(result.v) :
                /\ HasKey(result.v[i], "metric")
                /\ HasKey(result.v[i].v["metric"], "alertname")
                /\ result.v[i].v["metric"].v["alertname"].t = "str"

\* C1: for a well-formed feed, the evaluation decides 'unhealthy' exactly
\* when a name of the result list is an entry of the watch list it reads,
\* 'healthy' otherwise (an empty result list included), and that decision
\* becomes the status whatever the status was.
C1_Evaluation ==
    [][\A q \in Queries :
          /\ (pc[q] = "process" /\ pc'[q] # "process" /\ resp[q].text.lit = "feed")
                => /\ pc'[q] = "publish"
                   /\ verdict'[q] = Expected(resp[q].text.result, alerts)
          /\ (pc[q] = "publish" /\ pc'[q] = "done") => status' = verdict[q]]_vars

C1_Witness ==
    \E q \in Queries :
        /\ pc[q] = "done"
        /\ "process" \in ran[q]
        /\ Len(resp[q].text.result) = 2
        /\ Len(alerts) = 2
        /\ prior[q] = "healthy"
        /\ status = "unhealthy"

\* C2: when the fetch of a cycle failed with a name-resolution or a
\* connection failure, the status once start() has finished is 'unhealthy',
\* whatever it was before, and the cycle entered neither
\* json_prometheus_response nor process_prometheus_alerts.
C2_FetchFailure ==
    \A q \in Queries :
        (Finished(q) /\ resp[q].kind \in {"gaierror", "ConnectionError"})
            => (status = "unhealthy" /\ ran[q] = {})

C2_Witness ==
    \E q \in Queries :
        /\ pc[q] = "done"
        /\ resp[q].kind = "ConnectionError"
        /\ prior[q] = "healthy"
        /\ status = "unhealthy"

\* C3: after a cycle whose response body cannot be decoded (the empty body
\* included) the status is 'unhealthy' and the evaluation was skipped.
C3_Undecodable ==
    \A q \in Queries :
        (Finished(q) /\ resp[q].kind = "ok" /\ json_loads(resp[q].text).t = "raise")
            => (status = "unhealthy" /\ "process" \notin ran[q])

\* C4: after a cycle whose response body decodes but lacks the nesting
\* data -> result -> [ metric -> alertname ] the status is 'unhealthy'.
C4_WrongNesting ==
    \A q \in Queries :
        (/\ Finished(q)
         /\ resp[q].kind = "ok"
         /\ json_loads(resp[q].text).t # "raise"
         /\ ~WellFormed(json_loads(resp[q].text)))
            => status = "unhealthy"

\* C5: no exception escapes start(): a health query never ends in an
\* error, and what it returns is the text 'healthy' or 'unhealthy'.
C5_NoEscape ==
    \A q \in Queries :
        /\ pc[q] # "error"
        /\ pc[q] = "returned" => ret[q] \in {"healthy", "unhealthy"}

\* C6: a running engine keeps running: no reload, failed or not, ends the
\* process.
C6_ReloadKeepsRunning == [][phase = "running" => phase' = "running"]_vars

\* C7: a load that fails (the source cannot be opened, or the contents are
\* not a list) leaves the watch list as it was, so every feed is evaluated
\* to the same verdict before and after it.
C7_FailedLoad ==
    [][loadResult' \in {"SystemExit", "TypeError"}
          => /\ alerts' = alerts
             /\ loaded' = loaded
             /\ \A t \in FeedTexts :
                  process_prometheus_alerts(json_loads(t), alerts')
                      = process_prometheus_alerts(json_loads(t), alerts)]_vars

C7_Witness ==
    /\ phase = "running"
    /\ loadResult = "TypeError"
    /\ Len(alerts) = 2

\* C8: without a successful load the engine never serves: a construction
\* whose source cannot be opened ends in exit, and whenever the engine runs
\* or a query is in progress the watch list has been loaded.
C8_NoBaselineNoService ==
    /\ (phase = "running" \/ \E q \in Queries : pc[q] # "idle") => loaded
    /\ (~loaded /\ phase # "new")
          => (phase = "exited" /\ loadResult = "SystemExit" /\ status = "unset")

C8_Witness == phase = "exited" /\ ~loaded

\* C9: from construction until an evaluation has assigned the status, the
\* status is 'unhealthy'; and the status becomes 'healthy' only in the step
\* in which process_prometheus_alerts assigns it.
C9_FailClosed ==
    [][/\ (phase' = "running" /\ ~evaluated') => status' = "unhealthy"
       /\ (status' = "healthy" /\ status # "healthy")
             => \E q \in Queries :
                   pc[q] = "publish" /\ pc'[q] = "done" /\ verdict[q] = "healthy"]_vars

C9_Witness ==
    /\ ~evaluated
    /\ loadResult = "ok"
    /\ \E q \in Queries :
          pc[q] = "done" /\ "json" \in ran[q] /\ verdict[q] = "unhealthy"

\* C10: the text a health query returns is the verdict its own cycle
\* computed.
C10_OwnVerdict ==
    \A q \in Queries : pc[q] = "returned" => ret[q] = verdict[q]

\* the non-empty lines of a source, in order, without their terminators
RECURSIVE NonEmptyLines(_)
NonEmptyLines(lines) ==
    IF lines = <<>> THEN <<>>
    ELSE LET text == SelectSeq(Head(lines), LAMBDA token : token # NL)
         IN  (IF text = <<>> THEN <<>> ELSE <<text[1]>>) \o NonEmptyLines(Tail(lines))

\* C11: after a successful load the watch list is exactly the non-empty
\* lines of the source, in order, without terminators; an empty line gives
\* no entry.
C11_NonEmptyLines ==
    loadResult = "ok" => (alerts = NonEmptyLines(config) /\ "" \notin Range(alerts))

\* C13: every cycle that has ended has assigned the status exactly once and
\* has returned, on every path.
C13_PublishedOnce ==
    \A q \in Queries : Finished(q) => (writes[q] = 1 /\ pc[q] # "error")

\* C16: a query fetches exactly once: a cycle never asks Prometheus a second
\* time, after a failure or otherwise, and no query is answered unfetched.
C16_OneFetch ==
    \A q \in Queries :
        /\ fetches[q] <= 1
        /\ Finished(q) => fetches[q] = 1
        /\ ret[q] # "none" => fetches[q] = 1

C16_Witness ==
    \E q \in Queries :
        /\ pc[q] = "returned"
        /\ resp[q] = ConnError
        /\ fetches[q] = 1
        /\ ret[q] = "unhealthy"

\* a step in which json_prometheus_response is given text that does not decode
DecodeFailure(q) ==
    /\ pc[q] = "json"
    /\ pc'[q] # "json"
    /\ json_loads(resp[q].text).t = "raise"

\* C17 as stated: given malformed text the parse step returns without
\* raising and leaves the watch list and the status as they were.
C17_ParseChangesNothing ==
    [][\A q \in Queries :
          DecodeFailure(q) => (pc'[q] # "error" /\ alerts' = alerts /\ status' = status)]_vars

\* C17: given malformed text the parse step returns None without raising,
\* leaves the watch list as it was and sets the status to unhealthy.
C17_ParseFailsClosed ==
    [][\A q \in Queries :
          DecodeFailure(q) =>
              /\ pc'[q] = "done"
              /\ js'[q] = JNull
              /\ alerts' = alerts
              /\ status' = "unhealthy"]_vars

C17_Witness ==
    \E q \in Queries :
        /\ pc[q] = "done"
        /\ resp[q] = Response(Literal("narp"))
        /\ prior[q] = "healthy"
        /\ status = "unhealthy"
        /\ loaded

\* C18: the status after a cycle does not depend on the status before it:
\* with the fetch outcome and the watch list of any cycle that has ended,
\* start() from 'healthy' and start() from 'unhealthy' end with the same status.
C18_PriorIndependent ==
    \A q \in Queries :
        Finished(q) => start("healthy", resp[q], alerts) = start("unhealthy", resp[q], alerts)

\* the watch list a completed load of these lines installs
WatchListOf(lines) == [i \in 1..Len(lines) |-> strip(lines[i])]

\* C19: every evaluation step uses the watch list of the last load that
\* completed, also when that load fell between the cycle's fetch and its
\* evaluation: the list it reads is the list of that load and, for a feed,
\* its verdict is the one that list asks for.
C19_ReloadTakesEffect ==
    [][\A q \in Queries :
          (pc[q] = "process" /\ pc'[q] # "process")
              => /\ alerts = WatchListOf(config)
                 /\ resp[q].text.lit = "feed"
                       => verdict'[q] = Expected(resp[q].text.result, WatchListOf(config))]_vars

C19_Witness ==
    \E q \in Queries :
        /\ pc[q] = "publish"
        /\ reloaded
        /\ resp[q] = Response(FeedText(<<"KubernetesMasterDown">>))
        /\ alerts = <<"KubernetesMasterDown">>
        /\ prior[q] = "healthy"
        /\ verdict[q] = "unhealthy"

\* C20: a step of the running engine that changes the watch list or the
\* outcome of a load, or ends the process, changes neither the status nor
\* any query's position, fetch count or write count; and a step of a cycle
\* leaves the watch list and the loaded configuration as they were.
C20_Frames ==
    [][/\ (phase = "running" /\ engine' # engine)
            => (status' = status /\ fetches' = fetches /\ writes' = writes /\ pc' = pc)
       /\ (pc' # pc) => (alerts' = alerts /\ config' = config /\ loaded' = loaded)]_vars

C20_Witness ==
    \E q \in Queries :
        /\ pc[q] = "done"
        /\ reloaded
        /\ fetches[q] = 1
        /\ writes[q] = 1
        /\ status = "healthy"
        /\ alerts = <<"KubernetesMasterDown">>

\* C12: when overlapping cycles have all ended, the status is the verdict of
\* the cycle that ended last.  (For a cycle that ended without a verdict of
\* its own the fail-closed 'unhealthy' is accepted as its verdict.)
C12_LastWriteWins ==
    ( /\ \A q \in Queries : pc[q] \in {"idle", "done", "error", "returned"}
      /\ \E q, r \in Queries : q # r /\ Finished(q) /\ Finished(r) )
        => status = (IF lastVerdict = "none" THEN "unhealthy" ELSE lastVerdict)

\* C14: the status a reader can obtain is 'healthy' or 'unhealthy'; a cycle
\* assigns it at most once, and every change of the status is the one
\* assignment of a cycle, which ends with it: its final verdict.
C14_NoIntermediate ==
    [][/\ phase' = "running" => status' \in {"healthy", "unhealthy"}
       /\ \A q \in Queries :
             /\ writes'[q] <= 1
             /\ ret'[q] # "none" => ret'[q] \in {"healthy", "unhealthy"}
       /\ (phase = "running" /\ status' # status)
             => \E q \in Queries :
                   /\ writes[q] = 0
                   /\ writes'[q] = 1
                   /\ pc'[q] \in {"done", "error"}
                   /\ status' = verdict'[q]]_vars

C14_Witness ==
    \E q, r \in Queries :
        /\ q # r
        /\ pc[q] = "returned"
        /\ resp[q] = ConnError
        /\ ret[q] = "healthy"
        /\ pc[r] = "done"
        /\ writes[q] = 1
        /\ writes[r] = 1

\* C15: for every interleaving of a reload with an evaluation, the watch
\* list the evaluation reads is the complete list of the last load that was
\* completed or the complete list of the load in progress, and for a feed
\* its verdict is the one that list asks for.
C15_WholeList ==
    [][\A q \in Queries :
          (pc[q] = "process" /\ pc'[q] # "process")
              => \E lines \in {config} \cup (IF pending # <<>> THEN {loading} ELSE {}) :
                    /\ alerts = WatchListOf(lines)
                    /\ resp[q].text.lit = "feed"
                          => verdict'[q] = Expected(resp[q].text.result, WatchListOf(lines))]_vars

C15_Witness ==
    \E q \in Queries :
        /\ pc[q] = "publish"
        /\ pending # <<>>
        /\ alerts = <<"KubernetesMasterDown">>
        /\ loading = <<>>
        /\ resp[q] = Response(FeedText(<<"KubernetesMasterDown">>))
        /\ verdict[q] = "unhealthy"

====
